---- MODULE Spec2Model ----
(***************************************************************************)
(* BIP-39 mnemonic codec (package bip39): entropy -> mnemonic encoding,    *)
(* mnemonic -> entropy decoding, validation and seed derivation.           *)
(*                                                                         *)
(* Representation: a byte is an integer 0..255, a byte slice a sequence of *)
(* bytes; a Go string is the sequence of its bytes; a binary string (a     *)
(* string of '0'/'1' characters) is the sequence of its digits 0/1.        *)
(***************************************************************************)
EXTENDS Integers, Sequences, FiniteSets, TLC

(***************************************************************************)
(* Program constants                                                       *)
(***************************************************************************)
WordsNum12 == 12
WordsNum15 == 15
WordsNum18 == 18
WordsNum21 == 21
WordsNum24 == 24

wordBitLen == 11

\* "mnemonic"
seedSaltMod == <<109, 110, 101, 109, 111, 110, 105, 99>>
seedPbkdf2KeyLen == 64
seedPbkdf2Round == 2048

\* the space character, separator of strings.Split / strings.Join
SP == 32

wordsNumMap == {WordsNum12, WordsNum15, WordsNum18, WordsNum21, WordsNum24}

(***************************************************************************)
(* Binary codec                                                            *)
(***************************************************************************)
\* fmt.Sprintf("%.<n>b", v): v in base 2, left-padded with zeros to at
\* least n digits (v < 2^n at every call site, so exactly n digits)
FmtBin(v, n) == SubSeq([i \in 1..n |-> (v \div 2^(n - i)) % 2], 1, n)

\* strconv.ParseInt(s, 2, 16) of a string of binary digits: MSB first
RECURSIVE ParseBin(_)
ParseBin(s) ==
  IF Len(s) = 0 THEN 0 ELSE 2 * ParseBin(SubSeq(s, 1, Len(s) - 1)) + s[Len(s)]

\* bytesToBinaryString: "%.8b" of every byte, concatenated in order
RECURSIVE bytesToBinaryString(_)
bytesToBinaryString(slice) ==
  IF Len(slice) = 0 THEN <<>>
  ELSE bytesToBinaryString(SubSeq(slice, 1, Len(slice) - 1)) \o FmtBin(slice[Len(slice)], 8)

\* binaryStringToBytes: the error flag and the slice
binaryStringToBytes(binStr) ==
  IF Len(binStr) % 8 # 0
  THEN [err |-> "ErrBinaryString", slice |-> <<>>]
  ELSE [err |-> "nil",
        slice |-> SubSeq([k \in 1..(Len(binStr) \div 8) |->
                            ParseBin(SubSeq(binStr, 8 * (k - 1) + 1, 8 * k)) % 256],
                         1, Len(binStr) \div 8)]

(***************************************************************************)
(* crypto/sha256 (FIPS 180-4).  A 32-bit word is the tuple of its 32 bits, *)
(* most significant first; sums are carried out on the pair <<high 16      *)
(* bits, low 16 bits>> of a word, which keeps every integer below 2^31.    *)
(***************************************************************************)
K256 ==
  <<
    <<17034, 12184>>, <<28983, 17553>>, <<46528, 64463>>, <<59829, 56229>>,
    <<14678, 49755>>, <<23025, 4593>>, <<37439, 33444>>, <<43804, 24277>>,
    <<55303, 43672>>, <<4739, 23297>>, <<9265, 34238>>, <<21772, 32195>>,
    <<29374, 23924>>, <<32990, 45566>>, <<39900, 1703>>, <<49563, 61812>>,
    <<58523, 27073>>, <<61374, 18310>>, <<4033, 40390>>, <<9228, 41420>>,
    <<11753, 11375>>, <<19060, 33962>>, <<23728, 43484>>, <<30457, 35034>>,
    <<38974, 20818>>, <<43057, 50797>>, <<45059, 10184>>, <<48985, 32711>>,
    <<50912, 3059>>, <<54695, 37191>>, <<1738, 25425>>, <<5161, 10599>>,
    <<10167, 2693>>, <<11803, 8504>>, <<19756, 28156>>, <<21304, 3347>>,
    <<25866, 29524>>, <<30314, 2747>>, <<33218, 51502>>, <<37490, 11397>>,
    <<41663, 59553>>, <<43034, 26187>>, <<49739, 35696>>, <<51052, 20899>>,
    <<53650, 59417>>, <<54937, 1572>>, <<62478, 13701>>, <<4202, 41072>>,
    <<6564, 49430>>, <<7735, 27656>>, <<10056, 30540>>, <<13488, 48309>>,
    <<14620, 3251>>, <<20184, 43594>>, <<23452, 51791>>, <<26670, 28659>>,
    <<29839, 33518>>, <<30885, 25455>>, <<33992, 30740>>, <<36039, 520>>,
    <<37054, 65530>>, <<42064, 27883>>, <<48889, 41975>>, <<50801, 30962>>
  >>

Init256 ==
  <<
    <<27145, 58983>>, <<47975, 44677>>, <<15470, 62322>>, <<42319, 62778>>,
    <<20750, 21119>>, <<39685, 26764>>, <<8067, 55723>>, <<23520, 52505>>
  >>

\* a tuple of 16 bits, most significant first, as an integer
Int16(w) ==
  ((((((((((((((w[1] * 2 + w[2]) * 2 + w[3]) * 2 + w[4]) * 2 + w[5]) * 2 + w[6]) * 2 + w[7]) * 2 + w[8]) * 2 + w[9]) * 2 + w[10]) * 2 + w[11]) * 2 + w[12]) * 2 + w[13]) * 2 + w[14]) * 2 + w[15]) * 2 + w[16]

\* a word given by its bits as the pair <<high 16 bits, low 16 bits>>
HL(w) == <<Int16(SubSeq(w, 1, 16)), Int16(SubSeq(w, 17, 32))>>

\* the 16 bits of v < 2^16, most significant first
Bits16(v) ==
  <<(v \div 32768) % 2, (v \div 16384) % 2, (v \div 8192) % 2, (v \div 4096) % 2,
    (v \div 2048) % 2, (v \div 1024) % 2, (v \div 512) % 2, (v \div 256) % 2,
    (v \div 128) % 2, (v \div 64) % 2, (v \div 32) % 2, (v \div 16) % 2,
    (v \div 8) % 2, (v \div 4) % 2, (v \div 2) % 2, v % 2>>

\* the bits of the word <<hi, lo>>
Word(hl) == Bits16(hl[1]) \o Bits16(hl[2])

\* sum modulo 2^32 of a sequence of <<hi, lo>> pairs
RECURSIVE SumHi(_)
SumHi(s) == IF Len(s) = 0 THEN 0 ELSE s[1][1] + SumHi(Tail(s))
RECURSIVE SumLo(_)
SumLo(s) == IF Len(s) = 0 THEN 0 ELSE s[1][2] + SumLo(Tail(s))
Carry(hi, lo) == <<(hi + (lo \div 65536)) % 65536, lo % 65536>>
Add32(s) == Carry(SumHi(s), SumLo(s))

Zeros(n) == SubSeq([i \in 1..n |-> 0], 1, n)

Rotr(w, n) == SubSeq(w, 33 - n, 32) \o SubSeq(w, 1, 32 - n)
Shr(w, n) == Zeros(n) \o SubSeq(w, 1, 32 - n)

\* bitwise x XOR y XOR z
Xor3(x, y, z) == SubSeq([i \in 1..32 |-> (x[i] + y[i] + z[i]) % 2], 1, 32)

BigSigma0(w) == Xor3(Rotr(w, 2), Rotr(w, 13), Rotr(w, 22))
BigSigma1(w) == Xor3(Rotr(w, 6), Rotr(w, 11), Rotr(w, 25))
SmallSigma0(w) == Xor3(Rotr(w, 7), Rotr(w, 18), Shr(w, 3))
SmallSigma1(w) == Xor3(Rotr(w, 17), Rotr(w, 19), Shr(w, 10))
\* bitwise (x AND y) XOR (NOT x AND z)
Ch(x, y, z) == SubSeq([i \in 1..32 |-> IF x[i] = 1 THEN y[i] ELSE z[i]], 1, 32)
\* bitwise (x AND y) XOR (x AND z) XOR (y AND z)
Maj(x, y, z) == SubSeq([i \in 1..32 |-> (x[i] + y[i] + z[i]) \div 2], 1, 32)

\* message schedule: w = <<wb, wn>> holds W[0..lo-2] as bits (wb) and as
\* <<hi, lo>> pairs (wn); the result holds W[0..hi-1]
ScheduleWord(w, t) ==
  Add32(<<HL(SmallSigma1(w[1][t - 2])), w[2][t - 7],
          HL(SmallSigma0(w[1][t - 15])), w[2][t - 16]>>)
ScheduleAppend(w, n) == <<Append(w[1], Word(n)), Append(w[2], n)>>
ScheduleStep(w) == ScheduleAppend(w, ScheduleWord(w, Len(w[2]) + 1))

RECURSIVE Schedule(_, _, _)
Schedule(w, lo, hi) ==
  IF lo > hi \/ Len(w) # 2 THEN w
  ELSE IF lo = hi THEN ScheduleStep(w)
  ELSE Schedule(Schedule(w, lo, (lo + hi) \div 2), ((lo + hi) \div 2) + 1, hi)

\* round t over the working variables <<a, b, c, d, e, f, g, h>>, held both
\* as bits (v[1]) and as <<hi, lo>> pairs (v[2]); w is W as <<hi, lo>> pairs
RoundT1(vb, vn, w, t) ==
  Add32(<<vn[8], HL(BigSigma1(vb[5])), HL(Ch(vb[5], vb[6], vb[7])), K256[t], w[t]>>)
RoundT2(vb) == Add32(<<HL(BigSigma0(vb[1])), HL(Maj(vb[1], vb[2], vb[3]))>>)
RoundShift(vb, vn, a, e) ==
  << <<Word(a), vb[1], vb[2], vb[3], Word(e), vb[5], vb[6], vb[7]>>,
     <<a, vn[1], vn[2], vn[3], e, vn[5], vn[6], vn[7]>> >>
RoundSums(vb, vn, T1, T2) == RoundShift(vb, vn, Add32(<<T1, T2>>), Add32(<<vn[4], T1>>))
Round(v, w, t) == RoundSums(v[1], v[2], RoundT1(v[1], v[2], w, t), RoundT2(v[1]))

\* the rounds lo..hi
RECURSIVE Rounds(_, _, _, _)
Rounds(v, w, lo, hi) ==
  IF lo > hi \/ Len(v) # 2 THEN v
  ELSE IF lo = hi THEN Round(v, w, lo)
  ELSE Rounds(Rounds(v, w, lo, (lo + hi) \div 2), w, ((lo + hi) \div 2) + 1, hi)

\* one 512-bit block folded into the chaining value h (8 <<hi, lo>> pairs)
BlockWords(blk) ==
  <<SubSeq(blk, 1, 32), SubSeq(blk, 33, 64), SubSeq(blk, 65, 96), SubSeq(blk, 97, 128),
    SubSeq(blk, 129, 160), SubSeq(blk, 161, 192), SubSeq(blk, 193, 224), SubSeq(blk, 225, 256),
    SubSeq(blk, 257, 288), SubSeq(blk, 289, 320), SubSeq(blk, 321, 352), SubSeq(blk, 353, 384),
    SubSeq(blk, 385, 416), SubSeq(blk, 417, 448), SubSeq(blk, 449, 480), SubSeq(blk, 481, 512)>>
BlockPairs(wb) ==
  <<HL(wb[1]), HL(wb[2]), HL(wb[3]), HL(wb[4]), HL(wb[5]), HL(wb[6]), HL(wb[7]), HL(wb[8]),
    HL(wb[9]), HL(wb[10]), HL(wb[11]), HL(wb[12]), HL(wb[13]), HL(wb[14]), HL(wb[15]), HL(wb[16])>>
BlockSchedule(wb) == Schedule(<<wb, BlockPairs(wb)>>, 17, 64)[2]
StateBits(h) ==
  <<Word(h[1]), Word(h[2]), Word(h[3]), Word(h[4]),
    Word(h[5]), Word(h[6]), Word(h[7]), Word(h[8])>>
StateAdd(h, v) ==
  <<Add32(<<h[1], v[1]>>), Add32(<<h[2], v[2]>>), Add32(<<h[3], v[3]>>), Add32(<<h[4], v[4]>>),
    Add32(<<h[5], v[5]>>), Add32(<<h[6], v[6]>>), Add32(<<h[7], v[7]>>), Add32(<<h[8], v[8]>>)>>
Block256(h, blk) ==
  StateAdd(h, Rounds(<<StateBits(h), h>>, BlockSchedule(BlockWords(blk)), 1, 64)[2])

RECURSIVE Blocks256(_, _)
Blocks256(h, bits) ==
  IF Len(bits) = 0 THEN h
  ELSE Blocks256(Block256(h, SubSeq(bits, 1, 512)), SubSeq(bits, 513, Len(bits)))

\* padding: the message bits, a 1 bit, zeros up to 448 mod 512, then the
\* message bit length (below 2^16 here) as a 64-bit big-endian integer
Pad256(slice) ==
  bytesToBinaryString(slice) \o <<1>> \o Zeros((447 - 8 * Len(slice)) % 512)
    \o Zeros(48) \o FmtBin(8 * Len(slice), 16)

\* sha256.Sum256: the digest as 32 bytes
Digest(h) ==
  binaryStringToBytes(Word(h[1]) \o Word(h[2]) \o Word(h[3]) \o Word(h[4])
                        \o Word(h[5]) \o Word(h[6]) \o Word(h[7]) \o Word(h[8])).slice
Sum256(slice) == Digest(Blocks256(Init256, Pad256(slice)))

(***************************************************************************)
(* strings, sort                                                           *)
(***************************************************************************)
\* strings.Split(s, " "): the substrings between the spaces, in order; a
\* string with n spaces has n + 1 pieces, the empty string has one (empty)
RECURSIVE Split(_)
Split(s) ==
  LET P == {i \in 1..Len(s) : s[i] = SP}
  IN  IF P = {} THEN <<s>>
      ELSE LET p == CHOOSE q \in P : \A r \in P :
                      (IF 2 * q >= Len(s) THEN 2 * q - Len(s) ELSE Len(s) - 2 * q)
                        <= (IF 2 * r >= Len(s) THEN 2 * r - Len(s) ELSE Len(s) - 2 * r)
           IN  Split(SubSeq(s, 1, p - 1)) \o Split(SubSeq(s, p + 1, Len(s)))

\* strings.Join(elems, " ")
RECURSIVE Join(_)
Join(elems) ==
  IF Len(elems) = 0 THEN <<>>
  ELSE IF Len(elems) = 1 THEN elems[1]
  ELSE Join(SubSeq(elems, 1, Len(elems) \div 2)) \o <<SP>>
         \o Join(SubSeq(elems, (Len(elems) \div 2) + 1, Len(elems)))

\* Go's string order a < b: bytewise lexicographic, a proper prefix first
StrLess(a, b) ==
  LET n == IF Len(a) <= Len(b) THEN Len(a) ELSE Len(b)
      D == {i \in 1..n : a[i] # b[i]}
  IN  IF D = {} THEN Len(a) < Len(b)
      ELSE LET i == CHOOSE j \in D : \A k \in D : j <= k
           IN  a[i] < b[i]

\* sort.Search over slice[i..j): the smallest index h with slice[h] >= elem
RECURSIVE Search(_, _, _, _)
Search(slice, elem, i, j) ==
  IF i >= j THEN i
  ELSE LET h == (i + j) \div 2
       IN  IF StrLess(slice[h], elem) THEN Search(slice, elem, h + 1, j)
                                       ELSE Search(slice, elem, i, h)

\* sort.SearchStrings(slice, elem), slice indexed from 0
SearchStrings(slice, elem) == Search(slice, elem, 0, Cardinality(DOMAIN slice))

\* stringBinarySearch: the index of elem in the sorted slice, or -1
\* a search that returns the insertion index without comparing the entry
stringBinarySearchAny(slice, elem) ==
  LET idx == SearchStrings(slice, elem)
  IN  IF idx < Cardinality(DOMAIN slice) THEN idx ELSE -1
stringBinarySearch(slice, elem) ==
  LET idx == SearchStrings(slice, elem)
  IN  IF idx # Cardinality(DOMAIN slice) /\ slice[idx] = elem THEN idx ELSE -1

(***************************************************************************)
(* The words list: 2048 unique words in ascending byte order, indexed from *)
(* 0.  The word of index i is the three letters 'a'..'p' spelling i in     *)
(* base 16.                                                                *)
(***************************************************************************)
wordsListLen == 2048

wordsListEn ==
  [i \in 0..(wordsListLen - 1) |-> <<97 + (i \div 256), 97 + ((i \div 16) % 16), 97 + (i % 16)>>]

(***************************************************************************)
(* Entropy                                                                 *)
(***************************************************************************)
entropyBitLenMap == {128, 160, 192, 224, 256}

validateEntropyBitLen(bitLen) ==
  IF bitLen \notin entropyBitLenMap THEN "ErrEntropyBitLen" ELSE "nil"

\* GenerateEntropy(bitLen): bitLen / 8 bytes read from the random source,
\* here the byte stream rnd; the error for an invalid bit length
GenerateEntropy(bitLen, rnd) ==
  IF validateEntropyBitLen(bitLen) # "nil"
  THEN [entropy |-> <<>>, err |-> "ErrEntropyBitLen"]
  ELSE [entropy |-> SubSeq(rnd, 1, bitLen \div 8), err |-> "nil"]

(***************************************************************************)
(* Mnemonic.  A *Mnemonic is the record of its Words, or NilMnemonic.      *)
(***************************************************************************)
NilMnemonic == [nil |-> TRUE, Words |-> <<>>]
Mnemonic(words) == [nil |-> FALSE, Words |-> words]

\* a words number check that tests the range only
validateWordsNumRange(wordsNum) ==
  IF wordsNum < WordsNum12 \/ wordsNum > WordsNum24 THEN "ErrWordsNum" ELSE "nil"
validateWordsNum(wordsNum) ==
  IF wordsNum \notin wordsNumMap THEN "ErrWordsNum" ELSE "nil"

\* entropyChecksumBinStr: the first len(slice) / 4 digits of the digest
entropyChecksumBinStr(slice) ==
  SubSeq(bytesToBinaryString(Sum256(slice)), 1, Len(slice) \div 4)

\* the words of MnemonicFromEntropy's loop: word i is the words list entry
\* at the value of the digits [i * wordBitLen, (i + 1) * wordBitLen)
\* a loop that takes the digits' value as a 1-based index
MnemonicWordsOneBased(mnemonicBinStr) ==
  SubSeq([k \in 1..(Len(mnemonicBinStr) \div wordBitLen) |->
            wordsListEn[(ParseBin(SubSeq(mnemonicBinStr, (k - 1) * wordBitLen + 1,
                                         k * wordBitLen)) + 1) % wordsListLen]],
         1, Len(mnemonicBinStr) \div wordBitLen)
MnemonicWords(mnemonicBinStr) ==
  LET mnemonicLen == Len(mnemonicBinStr) \div wordBitLen
  IN  SubSeq([k \in 1..mnemonicLen |->
                wordsListEn[ParseBin(SubSeq(mnemonicBinStr, (k - 1) * wordBitLen + 1,
                                            k * wordBitLen))]],
             1, mnemonicLen)

\* MnemonicFromEntropy: the mnemonic and the error; mnemonicBinStr is the
\* function's local digit string (entropy digits, then checksum digits)
MnemonicOfBinStr(mnemonicBinStr) ==
  [mnemonic |-> Mnemonic(Join(MnemonicWords(mnemonicBinStr))), err |-> "nil",
   mnemonicBinStr |-> mnemonicBinStr]
\* an encoder without the entropy length check
MnemonicFromEntropyUnchecked(entropy) ==
  MnemonicOfBinStr(bytesToBinaryString(entropy) \o entropyChecksumBinStr(entropy))
MnemonicFromEntropy(entropy) ==
  IF validateEntropyBitLen(Len(entropy) * 8) # "nil"
  THEN [mnemonic |-> NilMnemonic, err |-> validateEntropyBitLen(Len(entropy) * 8),
        mnemonicBinStr |-> <<>>]
  ELSE MnemonicOfBinStr(bytesToBinaryString(entropy) \o entropyChecksumBinStr(entropy))

\* MnemonicFromWordsNum, rnd being what the random source delivers;
\* entropyBitLen is the bit length asked of GenerateEntropy and entropy
\* what it returned
MnemonicOfGenerated(entropyBitLen, entropy) ==
  [entropyBitLen |-> entropyBitLen, entropy |-> entropy] @@ MnemonicFromEntropy(entropy)
\* a constructor that asks for wordsNum * 11 bits of entropy
MnemonicFromWordsNumAllBits(wordsNum, rnd) ==
  IF validateWordsNum(wordsNum) # "nil"
  THEN [mnemonic |-> NilMnemonic, err |-> validateWordsNum(wordsNum),
        mnemonicBinStr |-> <<>>, entropyBitLen |-> 0, entropy |-> <<>>]
  ELSE MnemonicOfGenerated(wordsNum * 11, GenerateEntropy(wordsNum * 11, rnd).entropy)
MnemonicFromWordsNum(wordsNum, rnd) ==
  IF validateWordsNum(wordsNum) # "nil"
  THEN [mnemonic |-> NilMnemonic, err |-> validateWordsNum(wordsNum),
        mnemonicBinStr |-> <<>>, entropyBitLen |-> 0, entropy |-> <<>>]
  ELSE MnemonicOfGenerated((wordsNum * 11) - (wordsNum \div 3),
                           GenerateEntropy((wordsNum * 11) - (wordsNum \div 3), rnd).entropy)

MnemonicFromString(mnemonic) == Mnemonic(mnemonic)

Front(s) == SubSeq(s, 1, Len(s) - 1)

\* the digits of the words' indices, "%.11b" each, concatenated in order
\* index digits formatted with "%.10b"
RECURSIVE IndexBitsTen(_)
IndexBitsTen(idxs) ==
  IF Len(idxs) = 0 THEN <<>>
  ELSE IF Len(idxs) = 1 THEN FmtBin(idxs[1], wordBitLen - 1)
  ELSE IndexBitsTen(SubSeq(idxs, 1, Len(idxs) \div 2))
         \o IndexBitsTen(SubSeq(idxs, (Len(idxs) \div 2) + 1, Len(idxs)))
RECURSIVE IndexBits(_)
IndexBits(idxs) ==
  IF Len(idxs) = 0 THEN <<>>
  ELSE IF Len(idxs) = 1 THEN FmtBin(idxs[1], wordBitLen)
  ELSE IndexBits(SubSeq(idxs, 1, Len(idxs) \div 2))
         \o IndexBits(SubSeq(idxs, (Len(idxs) \div 2) + 1, Len(idxs)))

\* getBinaryStrings: the entropy part, the checksum part and the error;
\* lookups counts the words looked up before the function returned
BinStrFailed(e, n) ==
  [entropyBinStr |-> <<>>, chksumBinStr |-> <<>>, err |-> e, lookups |-> n]
\* the split of the digit string at len - len / 33
\* a split at len - len / 34
BinStrSplit34(mnemonicBinStr, n) ==
  [entropyBinStr |-> SubSeq(mnemonicBinStr, 1,
                            Len(mnemonicBinStr) - (Len(mnemonicBinStr) \div 34)),
   chksumBinStr |-> SubSeq(mnemonicBinStr,
                           Len(mnemonicBinStr) - (Len(mnemonicBinStr) \div 34) + 1,
                           Len(mnemonicBinStr)),
   err |-> "nil", lookups |-> n]
BinStrSplit(mnemonicBinStr, n) ==
  [entropyBinStr |-> SubSeq(mnemonicBinStr, 1,
                            Len(mnemonicBinStr) - (Len(mnemonicBinStr) \div 33)),
   chksumBinStr |-> SubSeq(mnemonicBinStr,
                           Len(mnemonicBinStr) - (Len(mnemonicBinStr) \div 33) + 1,
                           Len(mnemonicBinStr)),
   err |-> "nil", lookups |-> n]
\* the loop over the words, idxs being their indices: it returns at the
\* first index -1
BinStrOfIdxs(idxs, bad) ==
  IF bad # {}
  THEN BinStrFailed("ErrInvalidWord", CHOOSE k \in bad : \A j \in bad : k <= j)
  ELSE BinStrSplit(IndexBits(idxs), Len(idxs))
WordIdxs(wordsList) ==
  SubSeq([k \in 1..Len(wordsList) |-> stringBinarySearch(wordsListEn, wordsList[k])],
         1, Len(wordsList))
BadIdxs(idxs) == {k \in 1..Len(idxs) : idxs[k] = -1}
BinStrOfWords(wordsList, idxs) ==
  IF validateWordsNum(Len(wordsList)) # "nil"
  THEN BinStrFailed(validateWordsNum(Len(wordsList)), 0)
  ELSE BinStrOfIdxs(idxs, BadIdxs(idxs))
BinStrOfList(wordsList) == BinStrOfWords(wordsList, WordIdxs(wordsList))
getBinaryStrings(mnemonic) == BinStrOfList(Split(mnemonic.Words))

\* ToEntropy: the entropy (<<>> for nil) and the error; binErr is the
\* error of binaryStringToBytes, which the function discards
EntropyChecked(b, e, chksumComp) ==
  [entropy |-> IF chksumComp # b.chksumBinStr THEN <<>> ELSE e.slice,
   err |-> IF chksumComp # b.chksumBinStr THEN "ErrChecksum" ELSE "nil",
   binErr |-> e.err, lookups |-> b.lookups,
   entropyBits |-> Len(b.entropyBinStr), chksumBits |-> Len(b.chksumBinStr)]
EntropyOfBytes(b, e) == EntropyChecked(b, e, entropyChecksumBinStr(e.slice))
EntropyOfBinStr(b) ==
  IF b.err # "nil"
  THEN [entropy |-> <<>>, err |-> b.err, binErr |-> "nil", lookups |-> b.lookups,
        entropyBits |-> 0, chksumBits |-> 0]
  ELSE EntropyOfBytes(b, binaryStringToBytes(b.entropyBinStr))
ToEntropy(mnemonic) == EntropyOfBinStr(getBinaryStrings(mnemonic))

\* Validate: the error; binErr as in ToEntropy
\* a comparison of the checksums' lengths only
ValidateCheckedLen(b, e, chksumComp) ==
  [err |-> IF Len(chksumComp) # Len(b.chksumBinStr) THEN "ErrChecksum" ELSE "nil",
   binErr |-> e.err, lookups |-> b.lookups,
   entropyBits |-> Len(b.entropyBinStr), chksumBits |-> Len(b.chksumBinStr)]
ValidateChecked(b, e, chksumComp) ==
  [err |-> IF chksumComp # b.chksumBinStr THEN "ErrChecksum" ELSE "nil",
   binErr |-> e.err, lookups |-> b.lookups,
   entropyBits |-> Len(b.entropyBinStr), chksumBits |-> Len(b.chksumBinStr)]
ValidateBytes(b, e) == ValidateChecked(b, e, entropyChecksumBinStr(e.slice))
ValidateBinStr(b) ==
  IF b.err # "nil"
  THEN [err |-> b.err, binErr |-> "nil", lookups |-> b.lookups,
        entropyBits |-> 0, chksumBits |-> 0]
  ELSE ValidateBytes(b, binaryStringToBytes(b.entropyBinStr))
Validate(mnemonic) == ValidateBinStr(getBinaryStrings(mnemonic))

\* a validity test that stops after the words lookup
IsValidWords(mnemonic) == getBinaryStrings(mnemonic).err = "nil"
IsValid(mnemonic) == Validate(mnemonic).err = "nil"

\* pbkdf2.Key(password, salt, iter, keyLen, sha512.New): the derived key is
\* kept as the call that derives it; it has keyLen bytes
NilSeed == [password |-> <<>>, salt |-> <<>>, iter |-> 0, keyLen |-> 0, prf |-> "none"]
Pbkdf2Key(password, salt, iter, keyLen, prf) ==
  [password |-> password, salt |-> salt, iter |-> iter, keyLen |-> keyLen, prf |-> prf]

SeedOfValidated(mnemonic, passphrase, e) ==
  IF e # "nil"
  THEN [seed |-> NilSeed, err |-> e]
  ELSE [seed |-> Pbkdf2Key(mnemonic.Words, seedSaltMod \o passphrase,
                           seedPbkdf2Round, seedPbkdf2KeyLen, "sha512"),
        err |-> "nil"]
\* a seed derivation that does not validate
GenerateSeedUnvalidated(mnemonic, passphrase) ==
  SeedOfValidated(mnemonic, passphrase, "nil")
GenerateSeed(mnemonic, passphrase) ==
  SeedOfValidated(mnemonic, passphrase, Validate(mnemonic).err)

(***************************************************************************)
(* Inputs                                                                  *)
(***************************************************************************)
\* byte lengths 0..MaxEntropyLen of the entropy given to MnemonicFromEntropy
MaxEntropyLen == 33
\* entropy patterns 0..MaxSeed
MaxSeed == 1
\* words numbers -1..MaxWordsNum given to MnemonicFromWordsNum
MaxWordsNum == 25
\* texts of 0..MaxRepeat words given to MnemonicFromString
MaxRepeat == 25
\* entropies of at most MaxFlipLen bytes have the bits of their mnemonic flipped
MaxFlipLen == 24
\* passphrases 0..MaxPass
MaxPass == 1

\* pattern 0 is all zero bytes, pattern s the bytes s * 85, s * 86, ...
EntropyInput(n, seed) == SubSeq([i \in 1..n |-> (seed * (84 + i)) % 256], 1, n)

\* what the random source delivers to GenerateEntropy
RandomInput(seed) == EntropyInput(32, seed)

\* words not in the words list: "", "zzz", "aa", "aaq", "AAA"
UnknownWords == {<<>>, <<122, 122, 122>>, <<97, 97>>, <<97, 97, 113>>, <<65, 65, 65>>}

\* the words the texts are made of: two of the words list, and the others
TextWords == {wordsListEn[0], wordsListEn[wordsListLen - 1]} \cup UnknownWords

\* the words that replace a word of a mnemonic: the others, and one of the
\* words list
ReplacementWords == UnknownWords \cup {wordsListEn[1365]}

\* the text of n times the word w
RepeatText(w, n) == Join(SubSeq([k \in 1..n |-> w], 1, n))

\* passphrase k: the first k bytes of "TREZOR"
PassphraseInput(k) == SubSeq(<<84, 82, 69, 90, 79, 82>>, 1, k)

\* the text with the word at position k (from 1) replaced by w
ReplaceWordText(text, k, w) ==
  LET ws == Split(text)
  IN  Join(SubSeq(ws, 1, k - 1) \o <<w>> \o SubSeq(ws, k + 1, Len(ws)))

\* positions of a text of n words where a word is replaced
EditPositions(n) == {1, (n + 1) \div 2, n}

\* the text of the words of the bit stream bits with its bit i (from 0) flipped
FlipBitText(bits, i) ==
  Join(MnemonicWords(SubSeq(bits, 1, i) \o <<1 - bits[i + 1]>>
                       \o SubSeq(bits, i + 2, Len(bits))))

(***************************************************************************)
(* State: a caller holding one *Mnemonic and the results of the methods it *)
(* has called on it.  The methods only read mnemonic.Words, so the order   *)
(* of the calls does not matter to their results; the caller calls         *)
(* Validate, ToEntropy, IsValid and GenerateSeed in this order.            *)
(***************************************************************************)
VARIABLES
  origin,        \* how the mnemonic was made: the constructor and its arguments
  entropy,       \* the entropy MnemonicFromEntropy was given
  binStr,        \* the digit string MnemonicFromEntropy sliced into words
  mnemonic,      \* the *Mnemonic
  err,           \* the error the constructor returned
  retToEntropy,  \* result of mnemonic.ToEntropy()
  retValidate,   \* result of mnemonic.Validate()
  retIsValid,    \* result of mnemonic.IsValid()
  retSeed        \* result of mnemonic.GenerateSeed(passphrase)

vars == <<origin, entropy, binStr, mnemonic, err, retToEntropy, retValidate, retIsValid, retSeed>>

NoOrigin == [kind |-> "none", wordsNum |-> 0, entropyBitLen |-> 0, pos |-> 0]
NoToEntropy == [done |-> FALSE, entropy |-> <<>>, err |-> "nil", binErr |-> "nil",
                lookups |-> 0, entropyBits |-> 0, chksumBits |-> 0]
NoValidate == [done |-> FALSE, err |-> "nil", binErr |-> "nil",
               lookups |-> 0, entropyBits |-> 0, chksumBits |-> 0]
NoIsValid == [done |-> FALSE, ok |-> FALSE]
NoSeed == [done |-> FALSE, passphrase |-> <<>>, seed |-> NilSeed, err |-> "nil"]

NoResults ==
  /\ retToEntropy' = NoToEntropy
  /\ retValidate' = NoValidate
  /\ retIsValid' = NoIsValid
  /\ retSeed' = NoSeed

Init ==
  /\ origin = NoOrigin
  /\ entropy = <<>>
  /\ binStr = <<>>
  /\ mnemonic = NilMnemonic
  /\ err = "nil"
  /\ retToEntropy = NoToEntropy
  /\ retValidate = NoValidate
  /\ retIsValid = NoIsValid
  /\ retSeed = NoSeed

(***************************************************************************)
(* Constructors                                                            *)
(***************************************************************************)
Constructed(kind, wordsNum, entropyBitLen, e, r) ==
  /\ origin' = [kind |-> kind, wordsNum |-> wordsNum,
                entropyBitLen |-> entropyBitLen, pos |-> 0]
  /\ entropy' = e
  /\ binStr' = r.mnemonicBinStr
  /\ mnemonic' = r.mnemonic
  /\ err' = r.err
  /\ NoResults

ConstructedFromWordsNum(wordsNum, r) ==
  Constructed("wordsNum", wordsNum, r.entropyBitLen, r.entropy, r)

CallMnemonicFromWordsNum ==
  /\ origin.kind = "none"
  /\ \E wordsNum \in (-1)..MaxWordsNum, seed \in 0..MaxSeed :
       ConstructedFromWordsNum(wordsNum, MnemonicFromWordsNum(wordsNum, RandomInput(seed)))

CallMnemonicFromEntropy ==
  /\ origin.kind = "none"
  /\ \E n \in 0..MaxEntropyLen, seed \in 0..MaxSeed :
       Constructed("entropy", 0, 0, EntropyInput(n, seed),
                   MnemonicFromEntropy(EntropyInput(n, seed)))

CallMnemonicFromString ==
  /\ origin.kind = "none"
  /\ \E w \in TextWords, n \in 0..MaxRepeat :
       mnemonic' = MnemonicFromString(RepeatText(w, n))
  /\ origin' = [kind |-> "string", wordsNum |-> 0, entropyBitLen |-> 0, pos |-> 0]
  /\ err' = "nil"
  /\ UNCHANGED <<entropy, binStr>>
  /\ NoResults

\* MnemonicFromString of an encoded mnemonic with one word replaced by
\* another word
CallMnemonicFromStringReplaced ==
  /\ origin.kind = "entropy"
  /\ ~mnemonic.nil
  /\ \E k \in EditPositions(Len(Split(mnemonic.Words))), w \in ReplacementWords :
       /\ mnemonic' = MnemonicFromString(ReplaceWordText(mnemonic.Words, k, w))
       /\ origin' = [kind |-> "replaced", wordsNum |-> 0, entropyBitLen |-> 0, pos |-> k]
  /\ err' = "nil"
  /\ UNCHANGED <<entropy, binStr>>
  /\ NoResults

\* MnemonicFromString of an encoded mnemonic with one more word, or with
\* its last word dropped
CallMnemonicFromStringResized ==
  /\ origin.kind = "entropy"
  /\ ~mnemonic.nil
  /\ \/ \E w \in {wordsListEn[0], <<122, 122, 122>>} :
          mnemonic' = MnemonicFromString(mnemonic.Words \o <<SP>> \o w)
     \/ mnemonic' = MnemonicFromString(Join(Front(Split(mnemonic.Words))))
  /\ origin' = [kind |-> "resized", wordsNum |-> 0, entropyBitLen |-> 0, pos |-> 0]
  /\ err' = "nil"
  /\ UNCHANGED <<entropy, binStr>>
  /\ NoResults

\* MnemonicFromString of a valid encoded mnemonic with bit i of its bit
\* stream (the entropy bits followed by the checksum bits) flipped
CallMnemonicFromStringFlipped ==
  /\ origin.kind = "entropy"
  /\ ~mnemonic.nil
  /\ retValidate.done
  /\ retValidate.err = "nil"
  /\ ~retToEntropy.done
  /\ Len(entropy) <= MaxFlipLen
  /\ \E i \in 0..(Len(binStr) - 1) :
       /\ mnemonic' = MnemonicFromString(FlipBitText(binStr, i))
       /\ origin' = [kind |-> "flipped", wordsNum |-> 0, entropyBitLen |-> 0, pos |-> i]
  /\ err' = "nil"
  /\ UNCHANGED <<entropy, binStr>>
  /\ NoResults

(***************************************************************************)
(* Methods                                                                 *)
(***************************************************************************)
CallToEntropy ==
  /\ ~mnemonic.nil
  /\ retValidate.done
  /\ ~retToEntropy.done
  /\ retToEntropy' = [done |-> TRUE] @@ ToEntropy(mnemonic)
  /\ UNCHANGED <<origin, entropy, binStr, mnemonic, err, retValidate, retIsValid, retSeed>>

CallValidate ==
  /\ ~mnemonic.nil
  /\ ~retValidate.done
  /\ retValidate' = [done |-> TRUE] @@ Validate(mnemonic)
  /\ UNCHANGED <<origin, entropy, binStr, mnemonic, err, retToEntropy, retIsValid, retSeed>>

CallIsValid ==
  /\ ~mnemonic.nil
  /\ retToEntropy.done
  /\ ~retIsValid.done
  /\ retIsValid' = [done |-> TRUE, ok |-> IsValid(mnemonic)]
  /\ UNCHANGED <<origin, entropy, binStr, mnemonic, err, retToEntropy, retValidate, retSeed>>

CallGenerateSeed ==
  /\ ~mnemonic.nil
  /\ retIsValid.done
  /\ ~retSeed.done
  /\ \E p \in 0..MaxPass :
       retSeed' = [done |-> TRUE, passphrase |-> PassphraseInput(p)]
                    @@ GenerateSeed(mnemonic, PassphraseInput(p))
  /\ UNCHANGED <<origin, entropy, binStr, mnemonic, err, retToEntropy, retValidate, retIsValid>>

Next ==
  \/ CallMnemonicFromWordsNum
  \/ CallMnemonicFromEntropy
  \/ CallMnemonicFromString
  \/ CallMnemonicFromStringReplaced
  \/ CallMnemonicFromStringResized
  \/ CallToEntropy
  \/ CallValidate
  \/ CallIsValid
  \/ CallGenerateSeed

Spec == Init /\ [][Next]_vars

\* the caller that flips bits of valid mnemonics and validates the outcome
NextFlip ==
  \/ CallMnemonicFromEntropy
  \/ CallMnemonicFromStringFlipped
  \/ CallValidate

SpecFlip == Init /\ [][NextFlip]_vars
(***************************************************************************)
(* Properties                                                              *)
(***************************************************************************)
\* the number of words strings.Split(text, " ") yields: one more than the
\* number of spaces
WordsCount(text) == Cardinality({i \in DOMAIN text : text[i] = SP}) + 1
InWordsList(w) == \E i \in 0..(wordsListLen - 1) : wordsListEn[i] = w
HasUnknownWord(text) ==
  LET ws == Split(text)
  IN  \E k \in 1..Len(ws) : ~InWordsList(ws[k])
\* digit i (from 1) of the MSB-first digits of the bytes
BitOfBytes(bytes, i) == (bytes[((i - 1) \div 8) + 1] \div (2 ^ (7 - ((i - 1) % 8)))) % 2
\* the bytes with digit i (from 0) of their MSB-first digits flipped
FlippedBytes(bytes, i) ==
  SubSeq([k \in 1..Len(bytes) |->
            IF k # (i \div 8) + 1 THEN bytes[k]
            ELSE IF BitOfBytes(bytes, i + 1) = 1
                 THEN bytes[k] - 2 ^ (7 - (i % 8))
                 ELSE bytes[k] + 2 ^ (7 - (i % 8))],
         1, Len(bytes))
\* the unsigned MSB-first value of digits [11 * i, 11 * i + 11), i from 0
GroupValue(bits, i) ==
  bits[11 * i + 1] * 1024 + bits[11 * i + 2] * 512 + bits[11 * i + 3] * 256
    + bits[11 * i + 4] * 128 + bits[11 * i + 5] * 64 + bits[11 * i + 6] * 32
    + bits[11 * i + 7] * 16 + bits[11 * i + 8] * 8 + bits[11 * i + 9] * 4
    + bits[11 * i + 10] * 2 + bits[11 * i + 11]

\* C1: for every entropy of 128, 160, 192, 224 or 256 bits,
\* MnemonicFromEntropy succeeds, and ToEntropy of the mnemonic it returns
\* succeeds and returns exactly the original entropy bytes.
C1_RoundTrip ==
  (origin.kind = "entropy" /\ 8 * Len(entropy) \in {128, 160, 192, 224, 256})
    => /\ err = "nil"
       /\ ~mnemonic.nil
       /\ retToEntropy.done => (retToEntropy.err = "nil" /\ retToEntropy.entropy = entropy)

C1_Witness ==
  /\ origin.kind = "entropy"
  /\ Len(entropy) = 32
  /\ entropy[1] # 0
  /\ retToEntropy.done
  /\ retToEntropy.entropy = entropy

\* C2 as claimed: flipping any single bit of a valid mnemonic's bit stream
\* makes Validate fail with ErrChecksum.
C2_EveryFlipFails ==
  (origin.kind = "flipped" /\ retValidate.done) => retValidate.err = "ErrChecksum"

\* C2: flipping a single bit of a valid mnemonic's bit stream never makes
\* Validate fail with another error than ErrChecksum; a flipped checksum
\* bit always makes it fail with ErrChecksum, and a flipped entropy bit
\* makes it fail with ErrChecksum exactly when the first len / 4 digest
\* bits of the flipped entropy differ from the mnemonic's checksum bits.
C2_FlipDetected ==
  (origin.kind = "flipped" /\ retValidate.done)
    => /\ retValidate.err \in {"ErrChecksum", "nil"}
       /\ origin.pos >= 8 * Len(entropy) => retValidate.err = "ErrChecksum"
       /\ origin.pos < 8 * Len(entropy)
            => LET digest == Sum256(FlippedBytes(entropy, origin.pos))
               IN  retValidate.err = "nil"
                     <=> \A j \in 1..(Len(entropy) \div 4) :
                           BitOfBytes(digest, j) = binStr[8 * Len(entropy) + j]

C2_Witness ==
  /\ origin.kind = "flipped"
  /\ origin.pos < 8 * Len(entropy)
  /\ retValidate.done
  /\ retValidate.err = "ErrChecksum"

\* C3: a text whose number of words, split on single spaces, is not 12,
\* 15, 18, 21 or 24 makes Validate and ToEntropy fail with ErrWordsNum,
\* whatever its words are, and before any word is looked up.
C3_WordsNumGate ==
  WordsCount(mnemonic.Words) \notin {12, 15, 18, 21, 24}
    => /\ retValidate.done => (retValidate.err = "ErrWordsNum" /\ retValidate.lookups = 0)
       /\ retToEntropy.done
            => /\ retToEntropy.err = "ErrWordsNum"
               /\ retToEntropy.lookups = 0
               /\ retToEntropy.entropy = <<>>

C3_Witness ==
  /\ origin.kind = "string"
  /\ WordsCount(mnemonic.Words) = 13
  /\ InWordsList(SubSeq(mnemonic.Words, 1, 3))
  /\ retToEntropy.done
  /\ retToEntropy.err = "ErrWordsNum"

\* C4 as claimed: every text with at least one word that is not in the
\* words list makes Validate and ToEntropy fail with ErrInvalidWord.
C4_UnknownWordAnyCount ==
  (~mnemonic.nil /\ retToEntropy.done /\ HasUnknownWord(mnemonic.Words))
    => (retValidate.err = "ErrInvalidWord" /\ retToEntropy.err = "ErrInvalidWord")

\* C4: every text of 12, 15, 18, 21 or 24 words with at least one word
\* that is not in the words list makes Validate and ToEntropy fail with
\* ErrInvalidWord, also when the other words are in the list and the
\* checksum would match; no entropy is returned.
C4_UnknownWord ==
  (~mnemonic.nil /\ retToEntropy.done /\ WordsCount(mnemonic.Words) \in {12, 15, 18, 21, 24}
     /\ HasUnknownWord(mnemonic.Words))
    => /\ retValidate.err = "ErrInvalidWord"
       /\ retToEntropy.err = "ErrInvalidWord"
       /\ retToEntropy.entropy = <<>>

C4_Witness ==
  /\ origin.kind = "replaced"
  /\ origin.pos > 1
  /\ retToEntropy.done
  /\ retToEntropy.err = "ErrInvalidWord"
  /\ retValidate.err = "ErrInvalidWord"

\* C5: MnemonicFromEntropy returns a mnemonic exactly when 8 times the
\* entropy's byte length is 128, 160, 192, 224 or 256; for every other
\* length, the empty entropy included, it returns ErrEntropyBitLen and no
\* mnemonic.
C5_EntropyLength ==
  origin.kind = "entropy"
    => /\ ~mnemonic.nil <=> 8 * Len(entropy) \in {128, 160, 192, 224, 256}
       /\ ~mnemonic.nil => err = "nil"
       /\ mnemonic.nil => err = "ErrEntropyBitLen"

C5_Witness ==
  /\ origin.kind = "entropy"
  /\ Len(entropy) = 0
  /\ mnemonic.nil
  /\ err = "ErrEntropyBitLen"

\* C6: MnemonicFromWordsNum fails with ErrWordsNum for every words number
\* other than 12, 15, 18, 21 and 24; for these it asks for 128, 160, 192,
\* 224 and 256 bits of entropy and returns a mnemonic of that many words
\* that passes Validate.
C6_FromWordsNum ==
  origin.kind = "wordsNum"
    => /\ origin.wordsNum \notin {12, 15, 18, 21, 24}
            => (err = "ErrWordsNum" /\ mnemonic.nil)
       /\ origin.wordsNum \in {12, 15, 18, 21, 24}
            => /\ err = "nil"
               /\ ~mnemonic.nil
               /\ <<origin.wordsNum, origin.entropyBitLen>>
                    \in {<<12, 128>>, <<15, 160>>, <<18, 192>>, <<21, 224>>, <<24, 256>>}
               /\ 8 * Len(entropy) = origin.entropyBitLen
               /\ WordsCount(mnemonic.Words) = origin.wordsNum
               /\ retValidate.done => retValidate.err = "nil"

C6_Witness ==
  /\ origin.kind = "wordsNum"
  /\ origin.wordsNum = 21
  /\ origin.entropyBitLen = 224
  /\ retValidate.done
  /\ retValidate.err = "nil"

\* C7: when Validate fails, GenerateSeed returns no seed and the error
\* Validate returns, whatever the passphrase; when Validate succeeds, it
\* returns without error the 64-byte key derived from the mnemonic text
\* as password and "mnemonic" followed by the passphrase as salt.
C7_GenerateSeed ==
  (retSeed.done /\ retValidate.done)
    => /\ retValidate.err # "nil"
            => (retSeed.err = retValidate.err /\ retSeed.seed = NilSeed)
       /\ retValidate.err = "nil"
            => /\ retSeed.err = "nil"
               /\ retSeed.seed.keyLen = 64
               /\ retSeed.seed.password = mnemonic.Words
               /\ retSeed.seed.salt = <<109, 110, 101, 109, 111, 110, 105, 99>>
                                        \o retSeed.passphrase

C7_Witness ==
  /\ retSeed.done
  /\ retValidate.err = "nil"
  /\ retSeed.err = "nil"
  /\ retSeed.passphrase = <<>>
  /\ Len(retSeed.seed.salt) = 8

\* C8: ToEntropy returns an error exactly when Validate does, and the
\* same one; ToEntropy returns entropy bytes exactly when Validate returns
\* no error; IsValid returns true exactly when Validate returns no error.
C8_Agree ==
  /\ retToEntropy.done
       => /\ retToEntropy.err = retValidate.err
          /\ retToEntropy.entropy # <<>> <=> retValidate.err = "nil"
  /\ retIsValid.done => (retIsValid.ok <=> retValidate.err = "nil")

C8_Witness ==
  /\ retIsValid.done
  /\ ~retIsValid.ok
  /\ retValidate.err = "ErrChecksum"
  /\ retToEntropy.err = "ErrChecksum"

\* C9: for every mnemonic of 12, 15, 18, 21 or 24 words of the words
\* list, the digit string has 11 digits per word, its checksum part has
\* total / 33 = entropy part / 32 digits (4 to 8) and its entropy part 128,
\* 160, 192, 224 or 256 digits, a multiple of 8; binaryStringToBytes never
\* returns ErrBinaryString to ToEntropy or Validate.
C9_DecodeSplit ==
  /\ retValidate.binErr = "nil"
  /\ retToEntropy.binErr = "nil"
  /\ (retToEntropy.done /\ retToEntropy.err \in {"nil", "ErrChecksum"})
       => /\ retToEntropy.entropyBits + retToEntropy.chksumBits
               = 11 * WordsCount(mnemonic.Words)
          /\ retToEntropy.chksumBits = (11 * WordsCount(mnemonic.Words)) \div 33
          /\ retToEntropy.chksumBits = retToEntropy.entropyBits \div 32
          /\ retToEntropy.chksumBits \in 4..8
          /\ retToEntropy.entropyBits \in {128, 160, 192, 224, 256}
          /\ retToEntropy.entropyBits % 8 = 0
          /\ retValidate.entropyBits = retToEntropy.entropyBits
          /\ retValidate.chksumBits = retToEntropy.chksumBits

C9_Witness ==
  /\ retToEntropy.done
  /\ retToEntropy.err = "ErrChecksum"
  /\ retToEntropy.entropyBits = 160
  /\ retToEntropy.chksumBits = 5

\* C10: for every entropy of a valid length, the digit string made of the
\* entropy's digits and the first len / 4 digits of its digest has a
\* length that is a multiple of 11; the mnemonic has length / 11 words
\* joined by single spaces, and word i is the words list entry at the
\* MSB-first value of the digits [11 * i, 11 * i + 11), which is in 0..2047.
C10_EncodeSlicing ==
  (origin.kind = "entropy" /\ err = "nil")
    => /\ Len(binStr) = 8 * Len(entropy) + (Len(entropy) \div 4)
       /\ Len(binStr) % 11 = 0
       /\ \A i \in 1..(8 * Len(entropy)) : binStr[i] = BitOfBytes(entropy, i)
       /\ ~retValidate.done
            => LET digest == Sum256(entropy)
               IN  \A j \in 1..(Len(entropy) \div 4) :
                     binStr[8 * Len(entropy) + j] = BitOfBytes(digest, j)
       /\ WordsCount(mnemonic.Words) = Len(binStr) \div 11
       /\ LET ws == Split(mnemonic.Words)
          IN  /\ Len(ws) = Len(binStr) \div 11
              /\ \A i \in 0..((Len(binStr) \div 11) - 1) :
                   /\ GroupValue(binStr, i) \in 0..2047
                   /\ ws[i + 1] = wordsListEn[GroupValue(binStr, i)]

C10_Witness ==
  /\ origin.kind = "entropy"
  /\ err = "nil"
  /\ Len(binStr) = 264
  /\ WordsCount(mnemonic.Words) = 24
  /\ GroupValue(binStr, 0) > 0
====
